---- MODULE Spec2Model ----
(***************************************************************************)
(* State-machine model of src/src/App.jsx (HappyChat): the React component *)
(* App, its two effects (connection effect, room-change effect), the       *)
(* handlers it subscribes on the matrix-js-sdk client and its commands     *)
(* (login, logout, send, startDM, onComposerChange), with the search box,  *)
(* the message filter and the read-receipt effect of ChatView.             *)
(*                                                                         *)
(* React is modelled by its commit cycle.  A handler changes state and     *)
(* marks the component dirty; Commit renders once (recomputes the          *)
(* activeRoom memo) and runs the cleanups and effects whose dependencies   *)
(* changed.  State set by an effect makes the component dirty again, so    *)
(* every committed render is a state of the model.  Handlers run only      *)
(* between commits (dirty = FALSE).                                        *)
(*                                                                         *)
(* Texts are sequences of tokens; " " is the whitespace token.             *)
(***************************************************************************)
EXTENDS Integers, Sequences, FiniteSets, TLC

\* ------------------------------------------------------------ bounds
MaxClients == 3        \* clients the connection effect may construct
MaxBursts == 2         \* sync responses with timeline events per client
MaxWire == 2           \* most recent outgoing requests kept in the wire log
MaxSends == 2          \* send() calls in flight at once
MaxLogouts == 1        \* logout() calls in flight at once

\* ------------------------------------------------------------ constants
Window == 200          \* retention window of the setEvents updater

\* JSON values as the session state and the storage hold them: kind is what the value is
\* (in storage, "null" is the missing key and "text" a string JSON.parse rejects); a
\* field the value does not carry reads as empty
JsonValue(kind, baseUrl, accessToken, userId, deviceId) ==
    [kind |-> kind, baseUrl |-> baseUrl, accessToken |-> accessToken, userId |-> userId,
     deviceId |-> deviceId]
NoSession == JsonValue("null", <<>>, "", <<>>, "")
NoClient == 0
NoRoom == "NoRoom"
NoRoomObj == [c |-> NoClient, r |-> NoRoom]
NoTimer == [c |-> NoClient, r |-> NoRoom, ms |-> 0]
Unmounted == <<>>

RoomIds == {"A", "B"}
ClientIds == 1..MaxClients
BurstSizes == {1, Window}
MaxTs == 2
ComposerTexts == {<<>>, <<" ">>, <<"a">>, <<" ", "a">>}
HomeserverInputs == {<<"hs", " ">>, <<" ", "https://", "hs">>}

\* what the login form's homeserver field may hold when the button is enabled
SchemeInputs == {<<"hs">>, <<" ", "hs", " ">>, <<"h", " ", "s">>,
                 <<"http://", "hs">>, <<" ", "http://", "hs", " ">>,
                 <<"https://", "hs">>, <<"https://", "hs", " ", " ">>,
                 <<"hs", "https://">>, <<"http://">>}
DmInputs == {<<>>, <<"bob">>}
\* Room.name of the rooms (<<>>: the room has none) and the text of their ids
RoomNames == [r \in RoomIds |-> IF r = "A" THEN <<"D", "e", "v">> ELSE <<>>]
RoomIdText(r) == <<"!", r, ":", "hs">>
Queries == {<<>>, <<" ">>, <<"d", "E">>, <<" ", "b", " ">>, <<"h", "I">>, <<"i", "c">>,
            <<"D", "v">>, <<"x">>}
UpperLetters == <<"A", "B", "D", "E", "H", "I">>
LowerLetters == <<"a", "b", "d", "e", "h", "i">>
Me == <<"@", "me", ":", "hs">>
Bob == <<"@", "bob", ":", "hs">>
LoginResult == [access_token |-> "tok", user_id |-> Me, device_id |-> "dev"]
SavedSession == JsonValue("object", <<"https://", "hs">>, "tok", Me, "dev")
\* other contents of the storage key: text that is not JSON, "{}", an object with some
\* of the fields, "1"
StoredText == JsonValue("text", <<>>, "", <<>>, "")
StoredEmptyObject == JsonValue("object", <<>>, "", <<>>, "")
StoredPartial == JsonValue("object", <<"https://", "hs">>, "", Me, "")
StoredNumber == JsonValue("number", <<>>, "", <<>>, "")
WellFormedRecords == {NoSession, SavedSession}
\* sessions of users whose server name carries a port, and whose id names no server
MePorted == <<"@", "me", ":", "hs", ":", "8448">>
SavedPorted == JsonValue("object", <<"https://", "hs", ":", "8448">>, "tok", MePorted, "dev")
SavedBare == JsonValue("object", <<"https://", "hs">>, "tok", <<"@", "me", ":">>, "dev")
RecipientRecords == {SavedSession, SavedPorted, SavedBare}
RecipientInputs == {<<>>, <<" ">>, <<"bob">>, <<" ", "bob", " ">>, <<"@", "bob">>,
                    <<"@", "@", "bob">>, <<"@", "bob", ":", "x">>, <<"bob", ":", "x">>}
StoredRecords == {NoSession, SavedSession, StoredText, StoredEmptyObject, StoredPartial,
                  StoredNumber}
\* room members as getTypingMembers() reports them: the local user without and with a
\* display name, and other users, two of whom share a display name
Member(name, uid) == [name |-> name, userId |-> uid]
MeBare == Member(<<>>, Me)
MeNamed == Member(<<"Me">>, Me)
BobM == Member(<<"Bob">>, Bob)
Bob2M == Member(<<"Bob">>, <<"@", "bob2", ":", "hs">>)
CarolM == Member(<<"Carol">>, <<"@", "carol", ":", "hs">>)
DaveM == Member(<<>>, <<"@", "dave", ":", "hs">>)
TypingLists ==
    {<<>>, <<BobM>>, <<MeBare>>, <<MeNamed, BobM>>, <<BobM, Bob2M>>, <<BobM, CarolM, DaveM, Bob2M>>}
\* what the SDK reports of an event: getType(), getContent().msgtype, getContent().body
\* and getSender() ("" and <<>>: the field is missing)
Shape(type, msgtype, body, sender) ==
    [type |-> type, msgtype |-> msgtype, body |-> body, sender |-> sender]
TextFromBob == Shape("m.room.message", "m.text", <<"H", "i">>, Bob)
TextFromMe == Shape("m.room.message", "m.text", <<"o", "k">>, Me)
EmptyText == Shape("m.room.message", "m.text", <<>>, Bob)
Image == Shape("m.room.message", "m.image", <<"p", "i", "c">>, Bob)
Redacted == Shape("m.room.message", "", <<>>, Bob)
Sticker == Shape("m.sticker", "", <<"s">>, Bob)
Membership == Shape("m.room.member", "", <<>>, Bob)
NoShape == Shape("", "", <<>>, <<>>)
NoEvent == [c |-> NoClient, room |-> NoRoom, id |-> 0, live |-> FALSE, type |-> "",
            msgtype |-> "", body |-> <<>>, sender |-> <<>>]
EventShapes == {TextFromBob, TextFromMe, EmptyText, Image, Redacted, Sticker, Membership}

VARIABLES
    storage,      \* localStorage["happychat_session"]
    session, client, rooms, activeRoomId, events, message, isMobile,
    newChatOpen, newChatInput, newChatBusy, typingUsers,
    typingTimer, typingActive,     \* typingTimerRef (pending timeout), typingActiveRef
    activeRoom, memoDeps,          \* useMemo value and its dependencies
    connDeps, connCleanup,         \* connection effect: last dependencies, client its cleanup closes over
    roomDeps,                      \* room-change effect: last dependencies
    dirty,                         \* a render and its effects are pending
    cl,                            \* per constructed client: closure and SDK status
    known, tl, typ, bursts,        \* per client: rooms in store order, live timelines, typing members, responses
    nextClient,
    rustCrypto,                    \* the SDK build has initRustCrypto
    timeouts,                      \* the timeouts onComposerChange has set and that are still pending
    loginCall, logoutCalls, sends, dmCalls,   \* suspended async functions
    wire,                          \* the most recent requests issued to the server, in order
    switchRead,                    \* observation: the live history read when the selection last changed
    query,                         \* text of the search box
    roomsClient,                   \* the client whose Room objects the rooms array holds
    receiptDeps,                   \* ChatView read-receipt effect: last dependencies
    last                           \* observation: what the last step did

vars == <<storage, session, client, rooms, activeRoomId, events, message, isMobile,
          newChatOpen, newChatInput, newChatBusy, typingUsers, typingTimer, typingActive,
          activeRoom, memoDeps, connDeps, connCleanup, roomDeps, dirty, cl, known, tl, typ,
          bursts, nextClient, rustCrypto, loginCall, logoutCalls, sends, dmCalls, wire,
          switchRead, query, roomsClient, receiptDeps, timeouts, last>>

\* ------------------------------------------------------------ pure helpers
RECURSIVE TrimStart(_)
TrimStart(s) == IF s # <<>> /\ Head(s) = " " THEN TrimStart(Tail(s)) ELSE s

RECURSIVE TrimEnd(_)
TrimEnd(s) == IF s # <<>> /\ s[Len(s)] = " " THEN TrimEnd(SubSeq(s, 1, Len(s) - 1)) ELSE s

Trim(s) == TrimEnd(TrimStart(s))

StartsWith(s, tok) == s # <<>> /\ Head(s) = tok

\* mutant of normalizeHomeserver: the scheme test is skipped
normalizeHomeserver_AlwaysPrefixes(hs) ==
    LET v == Trim(hs) IN
    IF v = <<>> THEN <<>> ELSE <<"https://">> \o v

normalizeHomeserver(hs) ==
    LET v == Trim(hs) IN
    IF v = <<>> THEN <<>>
    ELSE IF StartsWith(v, "http://") \/ StartsWith(v, "https://") THEN v
    ELSE <<"https://">> \o v

Range(s) == {s[i] : i \in 1..Len(s)}

LastN(s, n) == IF Len(s) > n THEN SubSeq(s, Len(s) - n + 1, Len(s)) ELSE s

\* mutant of AppendEvent: slice(0, 200), the oldest events are kept
AppendEvent_KeepOldest(prev, ev) ==
    LET next == Append(prev, ev) IN
    IF Len(next) > Window THEN SubSeq(next, 1, Window) ELSE next

\* mutant of AppendEvent: the new event is put at the head
AppendEvent_AtHead(prev, ev) ==
    LET next == <<ev>> \o prev IN
    IF Len(next) > Window THEN SubSeq(next, Len(next) - Window + 1, Len(next)) ELSE next

\* the setEvents updater of onRoomTimeline
AppendEvent(prev, ev) ==
    LET next == Append(prev, ev) IN
    IF Len(next) > Window THEN SubSeq(next, Len(next) - Window + 1, Len(next)) ELSE next

\* loadSession over the content of the storage key
loadSession(stored) == IF stored.kind = "text" THEN NoSession ELSE stored

myUserIdOf(s) == IF s = NoSession THEN <<>> ELSE s.userId

myUserId == myUserIdOf(session)

GetRoom(c, r) == IF c # NoClient /\ r \in Range(known[c]) THEN [c |-> c, r |-> r] ELSE NoRoomObj

activeRoomMemo(c, r) == IF c # NoClient /\ r # NoRoom THEN GetRoom(c, r) ELSE NoRoomObj

\* "@name:server" from loose input (tokens "@" and ":" are the separators)
RECURSIVE SplitColon(_, _)
SplitColon(s, cur) ==
    IF s = <<>> THEN <<cur>>
    ELSE IF Head(s) = ":" THEN <<cur>> \o SplitColon(Tail(s), <<>>)
    ELSE SplitColon(Tail(s), Append(cur, Head(s)))

normalizeMxId(input, uid) ==
    LET v == Trim(input)
        parts == SplitColon(uid, <<>>)
        myServer == IF Len(parts) >= 2 /\ parts[2] # <<>> THEN parts[2] ELSE <<"matrix.org">>
        name == IF StartsWith(v, "@") THEN Tail(v) ELSE v
    IN  IF v = <<>> THEN <<>>
        ELSE IF StartsWith(v, "@") /\ ":" \in Range(v) THEN v
        ELSE <<"@">> \o name \o <<":">> \o myServer

\* String.prototype.toLowerCase
toLowerCase(s) ==
    [i \in 1..Len(s) |->
        IF \E k \in 1..Len(UpperLetters) : UpperLetters[k] = s[i]
        THEN LowerLetters[CHOOSE k \in 1..Len(UpperLetters) : UpperLetters[k] = s[i]]
        ELSE s[i]]

\* String.prototype.includes
includes(s, q) == \E i \in 0..(Len(s) - Len(q)) : SubSeq(s, i + 1, i + Len(q)) = q

\* the comparator sort of updateRooms: stable, descending by (timestamp || 0)
RECURSIVE InsertRoom(_, _, _)
InsertRoom(sorted, r, ts) ==
    IF sorted = <<>> THEN <<r>>
    ELSE IF ts[Head(sorted)] >= ts[r] THEN <<Head(sorted)>> \o InsertRoom(Tail(sorted), r, ts)
    ELSE <<r>> \o sorted

\* mutant of SortRooms: the store order is kept
SortRooms_StoreOrder(rs, ts) == rs

RECURSIVE SortRooms(_, _)
SortRooms(rs, ts) ==
    IF rs = <<>> THEN <<>>
    ELSE InsertRoom(SortRooms(SubSeq(rs, 1, Len(rs) - 1), ts), rs[Len(rs)], ts)

RECURSIVE FilterSeq(_, _)
FilterSeq(s, keep) ==
    IF s = <<>> THEN <<>>
    ELSE (IF Head(s) \in keep THEN <<Head(s)>> ELSE <<>>) \o FilterSeq(Tail(s), keep)

\* m?.name || m?.rawDisplayName || m?.displayName || m?.userId
memberLabel(m) == IF m.name # <<>> THEN m.name ELSE m.userId

\* the typing projection shared by updateTypingForActive and the room-change effect
typingNames(members, uid) ==
    LET labels == [i \in 1..Len(members) |-> memberLabel(members[i])]
        kept == FilterSeq(labels, {n \in Range(labels) : n # <<>> /\ n # uid})
    IN  SubSeq(kept, 1, IF Len(kept) < 3 THEN Len(kept) ELSE 3)

\* the two filters of msgEvents
isMessage(e) == e.type = "m.room.message" /\ (e.msgtype = "m.text" \/ e.body # <<>>)

\* the msgEvents memo of ChatView over its events prop
msgEvents(evs) == SelectSeq(evs, isMessage)

fromOther(e, uid) == e.sender # <<>> /\ e.sender # uid

\* [...msgEvents].reverse().find(...) of the read-receipt effect (NoEvent: undefined)
latestOther(msgs, uid) ==
    LET others == SelectSeq(msgs, LAMBDA e : fromOther(e, uid))
    IN  IF others = <<>> THEN NoEvent ELSE others[Len(others)]

\* the event the read-receipt effect of ChatView passes to sendReadReceipt (NoEvent: it
\* returns before), given the props client, room, events and myUserId
receiptTarget(c, room, evs, uid) ==
    IF c = NoClient \/ room = NoRoomObj \/ msgEvents(evs) = <<>> THEN NoEvent
    ELSE latestOther(msgEvents(evs), uid)

\* r.name || r.roomId || "" of a Room object
roomDisplayName(r) == IF RoomNames[r] # <<>> THEN RoomNames[r] ELSE RoomIdText(r)

\* r.getLastLiveEvent?.()?.getContent?.()?.body || "" of the Room object of client c
lastBody(c, r) ==
    IF c = NoClient \/ tl[c][r] = <<>> THEN <<>> ELSE tl[c][r][Len(tl[c][r])].body

\* mutant of roomMatches: name and preview are compared as they are written
roomMatches_CaseSensitive(c, r, q) ==
    includes(roomDisplayName(r), q) \/ includes(lastBody(c, r), q)

\* the predicate of rooms.filter in filteredRooms, q being the lower-cased query
roomMatches(c, r, q) ==
    LET name == toLowerCase(roomDisplayName(r))
        lastText == toLowerCase(lastBody(c, r))
    IN  includes(name, q) \/ includes(lastText, q)

\* the filteredRooms memo over the rooms array rs (Room objects of client c) and the
\* search text
filterRooms(rs, c, text) ==
    LET q == toLowerCase(Trim(text)) IN
    IF q = <<>> THEN rs
    ELSE FilterSeq(rs, {r \in Range(rs) : roomMatches(c, r, q)})

filteredRooms == filterRooms(rooms, roomsClient, query)

\* updateTypingForActive of client c, with the activeRoomId and myUserId its closure captured
updateTypingForActive(c) ==
    IF cl[c].capRoom = NoRoom THEN <<>>
    ELSE IF GetRoom(c, cl[c].capRoom) = NoRoomObj THEN <<>>
    ELSE typingNames(typ[c][cl[c].capRoom], cl[c].capUser)

\* mutant of updateRooms: the first room is opened in the compact layout as well
updateRooms_AnyLayout(c, kn, ts) ==
    LET rs == SortRooms(kn, ts) IN
    [rooms |-> rs, auto |-> IF cl[c].capRoom = NoRoom /\ rs # <<>> THEN rs[1] ELSE NoRoom]

\* updateRooms of client c over its room set kn with timestamps ts: the sorted list it
\* sets, and the room it auto-opens (NoRoom when it opens none)
updateRooms(c, kn, ts) ==
    LET rs == SortRooms(kn, ts) IN
    [rooms |-> rs,
     auto |-> IF ~cl[c].capMobile /\ cl[c].capRoom = NoRoom /\ rs # <<>> THEN rs[1] ELSE NoRoom]

Transmit(w, req) == LastN(Append(w, req), MaxWire)

Request(kind, c, r, body) ==
    [kind |-> kind, c |-> c, room |-> r, typing |-> FALSE, timeout |-> 0, body |-> body]

\* roomsTimer: the roomsUpdateTimer of the client's effect closure is set
FreshClient == [capRoom |-> NoRoom, capMobile |-> FALSE, capUser |-> <<>>, listening |-> FALSE,
                running |-> FALSE, torn |-> FALSE, crypto |-> "none", made |-> FALSE,
                roomsTimer |-> FALSE]

NoLast == [op |-> "init", c |-> NoClient, old |-> NoClient, r |-> NoRoom, hist |-> FALSE,
           k |-> 0, why |-> {}, notice |-> "none", ts |-> [r \in RoomIds |-> 0],
           shape |-> NoShape, receipt |-> NoEvent, input |-> <<>>]

NoRead == [fresh |-> FALSE, room |-> NoRoom, from |-> NoRoom, dropped |-> FALSE, tl |-> <<>>]

Did(op) == [NoLast EXCEPT !.op = op]

Idle == ~dirty

\* ChatView is rendered (mobile: a room is selected; desktop: the activeRoom memo is non-null)
ChatViewShown ==
    /\ session # NoSession
    /\ IF isMobile THEN activeRoomId # NoRoom ELSE activeRoom # NoRoomObj

CanCreate == nextClient <= MaxClients

\* the state after the first call of App, the storage key holding one of contents
InitFrom(contents) ==
    /\ storage \in contents
    /\ session = loadSession(storage)
    /\ client = NoClient
    /\ rooms = <<>>
    /\ activeRoomId = NoRoom
    /\ events = <<>>
    /\ message = <<>>
    /\ isMobile \in BOOLEAN
    /\ newChatOpen = FALSE
    /\ newChatInput = <<>>
    /\ newChatBusy = FALSE
    /\ typingUsers = <<>>
    /\ typingTimer = NoTimer
    /\ typingActive = FALSE
    /\ activeRoom = NoRoomObj
    /\ memoDeps = Unmounted
    /\ connDeps = Unmounted
    /\ connCleanup = NoClient
    /\ roomDeps = Unmounted
    /\ dirty = TRUE
    /\ cl = [c \in ClientIds |-> FreshClient]
    /\ known = [c \in ClientIds |-> <<>>]
    /\ tl = [c \in ClientIds |-> [r \in RoomIds |-> <<>>]]
    /\ typ = [c \in ClientIds |-> [r \in RoomIds |-> <<>>]]
    /\ bursts = [c \in ClientIds |-> 0]
    /\ nextClient = 1
    /\ rustCrypto \in BOOLEAN
    /\ loginCall = <<>>
    /\ logoutCalls = 0
    /\ sends = <<>>
    /\ dmCalls = 0
    /\ wire = <<>>
    /\ switchRead = NoRead
    /\ query = <<>>
    /\ roomsClient = NoClient
    /\ receiptDeps = Unmounted
    /\ timeouts = <<>>
    /\ last = NoLast

Init == InitFrom(WellFormedRecords)

\* mutant of TornDown: the cleanup stops the client and leaves its subscriptions in place
TornDown_KeepsListeners(k) ==
    [FreshClient EXCEPT !.torn = TRUE, !.made = TRUE, !.crypto = k.crypto,
                        !.roomsTimer = k.roomsTimer, !.listening = k.listening]

\* the cleanup of the connection effect on its client: the four removeListener calls (the
\* handlers and what they closed over are dropped) and stopClient(); roomsUpdateTimer is
\* not cleared
TornDown(k) ==
    [FreshClient EXCEPT !.torn = TRUE, !.made = TRUE, !.crypto = k.crypto,
                        !.roomsTimer = k.roomsTimer]

\* the calls of the cleanup in program order
cleanupCalls ==
    << [call |-> "removeListener", event |-> "sync"],
       [call |-> "removeListener", event |-> "Room.timeline"],
       [call |-> "removeListener", event |-> "Room"],
       [call |-> "removeListener", event |-> "RoomMember.typing"],
       [call |-> "stopClient", event |-> ""] >>

\* try { c.stopClient(); } catch {}: the cleanup returns whether or not stopClient threw
cleanupCompletes(threw) == threw \/ ~threw

EmptyStore == [r \in RoomIds |-> <<>>]

\* the rooms array is replaced by Room objects of client newOwner (NoClient: by none): the
\* timelines of a stopped client whose Room objects it held are no longer reachable
ReleaseStore(t, owner, newOwner) ==
    IF owner # NoClient /\ owner # newOwner /\ cl[owner].torn
    THEN [t EXCEPT ![owner] = EmptyStore] ELSE t

\* ------------------------------------------------------------ React commit
\* One render of App followed by the cleanups and effects whose dependencies changed.
Commit ==
    /\ dirty
    /\ \E threw \in BOOLEAN :
       LET ar == IF memoDeps # <<client, activeRoomId>>
                 THEN activeRoomMemo(client, activeRoomId) ELSE activeRoom
           connNow == <<session, activeRoomId, isMobile, myUserId>>
           connRun == connDeps # connNow
           old == IF connRun THEN connCleanup ELSE NoClient
           make == connRun /\ session # NoSession /\ cleanupCompletes(threw)
           c == nextClient
           roomNow == <<activeRoomId, ar, client, myUserId>>
           roomRun == roomDeps # roomNow
           hasRoom == ar # NoRoomObj /\ client # NoClient
           stopped == IF old # NoClient THEN [cl EXCEPT ![old] = TornDown(cl[old])] ELSE cl
           why == IF connDeps = Unmounted THEN {"mount"}
                  ELSE {n \in {"session", "activeRoomId", "isMobile"} :
                          \/ n = "session" /\ connDeps[1] # session
                          \/ n = "activeRoomId" /\ connDeps[2] # activeRoomId
                          \/ n = "isMobile" /\ connDeps[3] # isMobile}
           selChanged == memoDeps # Unmounted /\ memoDeps[2] # activeRoomId
           listed == old # NoClient /\ old = roomsClient
           \* ChatView is rendered, in the compact or in the wide tree
           shown == session # NoSession
                      /\ (IF isMobile THEN activeRoomId # NoRoom ELSE ar # NoRoomObj)
           rcptNow == IF shown
                      THEN <<isMobile, client, ar.r, Len(msgEvents(events)), myUserId>>
                      ELSE Unmounted
           target == IF shown /\ receiptDeps # rcptNow
                     THEN receiptTarget(client, ar, events, myUserId) ELSE NoEvent
       IN  /\ threw => old # NoClient
           /\ make => c \in ClientIds
           /\ activeRoom' = ar
           /\ memoDeps' = <<client, activeRoomId>>
           /\ connDeps' = connNow
           /\ roomDeps' = roomNow
           /\ connCleanup' = IF connRun THEN (IF make THEN c ELSE NoClient) ELSE connCleanup
           /\ cl' = IF make
                    THEN [stopped EXCEPT ![c] =
                            [capRoom |-> activeRoomId, capMobile |-> isMobile,
                             capUser |-> myUserId, listening |-> TRUE,
                             running |-> ~rustCrypto, torn |-> FALSE,
                             crypto |-> IF rustCrypto THEN "pending" ELSE "none",
                             made |-> TRUE, roomsTimer |-> FALSE]]
                    ELSE stopped
           /\ client' = IF make THEN c ELSE client
           /\ nextClient' = IF make THEN c + 1 ELSE nextClient
           /\ events' = IF roomRun THEN (IF hasRoom THEN tl[ar.c][ar.r] ELSE <<>>) ELSE events
           /\ typingUsers' = IF roomRun
                             THEN (IF hasRoom THEN typingNames(typ[ar.c][ar.r], myUserId) ELSE <<>>)
                             ELSE typingUsers
           /\ dirty' = (client' # client \/ events' # events \/ typingUsers' # typingUsers)
           /\ switchRead' = IF selChanged
                            THEN [fresh |-> TRUE, room |-> activeRoomId,
                                  from |-> memoDeps[2], dropped |-> events # <<>>,
                                  tl |-> IF ar # NoRoomObj THEN tl[ar.c][ar.r] ELSE <<>>]
                            ELSE switchRead
           /\ receiptDeps' = rcptNow
           /\ wire' = IF target = NoEvent THEN wire
                      ELSE Transmit(wire, Request("receipt", client, target.room, target.body))
           /\ last' = [NoLast EXCEPT !.op = "commit", !.c = IF make THEN c ELSE NoClient,
                                     !.old = old,
                                     !.why = (IF connRun THEN why ELSE {})
                                               \cup (IF threw THEN {"stopThrew"} ELSE {}),
                                     !.receipt = target]
           \* the store of a stopped client is dropped with the client, except for the
           \* timelines of the Room objects the rooms array still holds
           /\ known' = IF old # NoClient THEN [known EXCEPT ![old] = <<>>] ELSE known
           /\ tl' = IF old # NoClient /\ ~listed THEN [tl EXCEPT ![old] = EmptyStore] ELSE tl
           /\ typ' = IF old # NoClient THEN [typ EXCEPT ![old] = EmptyStore] ELSE typ
           /\ bursts' = IF old # NoClient THEN [bursts EXCEPT ![old] = 0] ELSE bursts
    /\ UNCHANGED <<storage, session, rooms, activeRoomId, message, isMobile, newChatOpen,
                   newChatInput, newChatBusy, typingTimer, typingActive,
                   loginCall, logoutCalls, sends, dmCalls, rustCrypto, timeouts, roomsClient, query>>

\* ------------------------------------------------------------ SDK notifications
Serving(c) == Idle /\ cl[c].listening /\ cl[c].running

Learn(kn, r) == IF r \in Range(kn) THEN kn ELSE Append(kn, r)

Reverse(s) == [i \in 1..Len(s) |-> s[Len(s) + 1 - i]]

\* "Room": client c reports a room-set change (r joins its store when new); onRoom
SdkRoom(c, r, ts) ==
    /\ Serving(c)
    /\ LET kn == Learn(known[c], r)
           u == updateRooms(c, kn, ts)
       IN  /\ u.auto # NoRoom => CanCreate
           /\ known' = [known EXCEPT ![c] = kn]
           /\ rooms' = u.rooms
           /\ activeRoomId' = IF u.auto # NoRoom THEN u.auto ELSE activeRoomId
           /\ dirty' = (rooms' # rooms \/ activeRoomId' # activeRoomId)
           /\ roomsClient' = c
           /\ tl' = ReleaseStore(tl, roomsClient, c)
           /\ last' = [NoLast EXCEPT !.op = "Room", !.c = c, !.r = r, !.ts = ts]
    /\ UNCHANGED <<storage, session, client, events, message, isMobile, newChatOpen,
                   newChatInput, newChatBusy, typingUsers, typingTimer, typingActive,
                   activeRoom, memoDeps, connDeps, connCleanup, roomDeps, cl, typ,
                   nextClient, rustCrypto, timeouts, receiptDeps, query, bursts, loginCall, logoutCalls, sends, dmCalls,
                   wire, switchRead>>

\* "sync" with state PREPARED; onSync
SdkSync(c, ts) ==
    /\ Serving(c)
    /\ LET u == updateRooms(c, known[c], ts)
       IN  /\ u.auto # NoRoom => CanCreate
           /\ rooms' = u.rooms
           /\ activeRoomId' = IF u.auto # NoRoom THEN u.auto ELSE activeRoomId
           /\ typingUsers' = updateTypingForActive(c)
           /\ dirty' = (rooms' # rooms \/ activeRoomId' # activeRoomId
                          \/ typingUsers' # typingUsers)
           /\ roomsClient' = c
           /\ tl' = ReleaseStore(tl, roomsClient, c)
           /\ last' = [NoLast EXCEPT !.op = "sync", !.c = c, !.ts = ts]
    /\ UNCHANGED <<storage, session, client, events, message, isMobile, newChatOpen,
                   newChatInput, newChatBusy, typingTimer, typingActive,
                   activeRoom, memoDeps, connDeps, connCleanup, roomDeps, cl, known, typ,
                   nextClient, rustCrypto, timeouts, receiptDeps, query, bursts, loginCall, logoutCalls, sends, dmCalls,
                   wire, switchRead>>

\* the k events one sync response of client c adds to room r, numbered in the order the
\* client delivers that room's events; shape is what getType(), getContent() and
\* getSender() of each of them return
Burst(c, r, k, hist, shape) ==
    [i \in 1..k |-> [c |-> c, room |-> r, id |-> Len(tl[c][r]) + i, live |-> ~hist,
                     type |-> shape.type, msgtype |-> shape.msgtype, body |-> shape.body,
                     sender |-> shape.sender]]

\* mutant of onRoomTimeline: no comparison with the selected room
onRoomTimeline_AnyRoom(c, prev, ev, r, toStartOfTimeline) ==
    IF toStartOfTimeline THEN prev ELSE AppendEvent(prev, ev)

\* mutant of onRoomTimeline: back-filled events are appended as well
onRoomTimeline_Backfill(c, prev, ev, r, toStartOfTimeline) ==
    IF r = NoRoom \/ r # cl[c].capRoom THEN prev ELSE AppendEvent(prev, ev)

\* onRoomTimeline of client c for one event
onRoomTimeline(c, prev, ev, r, toStartOfTimeline) ==
    IF toStartOfTimeline THEN prev
    ELSE IF r = NoRoom \/ r # cl[c].capRoom THEN prev
    ELSE AppendEvent(prev, ev)

\* onRoomTimeline for each event of evs in turn: the first half, then (once that value
\* is computed) the second half
RECURSIVE onRoomTimelineAll(_, _, _, _, _)
onRoomTimelineAll(c, prev, evs, r, hist) ==
    IF evs = <<>> THEN prev
    ELSE IF Len(evs) = 1 THEN onRoomTimeline(c, prev, evs[1], r, hist)
    ELSE LET h == Len(evs) \div 2
             mid == onRoomTimelineAll(c, prev, SubSeq(evs, 1, h), r, hist)
         IN  IF Len(mid) >= 0
             THEN onRoomTimelineAll(c, mid, SubSeq(evs, h + 1, Len(evs)), r, hist)
             ELSE mid

\* "Room.timeline": one sync response of client c carries k events of room r (live at the
\* tail of the room's timeline, or back-filled at its head), each handed to onRoomTimeline
SdkTimeline(c, r, k, hist, shape) ==
    /\ Serving(c)
    /\ r \in Range(known[c])
    /\ bursts[c] < MaxBursts
    /\ hist => k = 1
    /\ bursts' = [bursts EXCEPT ![c] = @ + 1]
    /\ LET evs == Burst(c, r, k, hist, shape)
       IN  /\ tl' = [tl EXCEPT ![c][r] = IF hist THEN Reverse(evs) \o @ ELSE @ \o evs]
           /\ events' = onRoomTimelineAll(c, events, evs, r, hist)
           /\ dirty' = (events' # events)
           /\ switchRead' = IF events' # events
                            THEN [switchRead EXCEPT !.fresh = FALSE, !.tl = <<>>]
                            ELSE switchRead
           /\ last' = [NoLast EXCEPT !.op = "Room.timeline", !.c = c, !.r = r,
                                     !.hist = hist, !.k = k, !.shape = shape]
    /\ UNCHANGED <<storage, session, client, rooms, activeRoomId, message, isMobile,
                   newChatOpen, newChatInput, newChatBusy, typingUsers, typingTimer,
                   typingActive, activeRoom, memoDeps, connDeps, connCleanup, roomDeps, cl,
                   known, typ, nextClient, rustCrypto, timeouts, receiptDeps, roomsClient, query, loginCall, logoutCalls, sends, dmCalls, wire>>

\* "RoomMember.typing": the typing members of room r change; onTyping
SdkTyping(c, r, members) ==
    /\ Serving(c)
    /\ r \in Range(known[c])
    /\ typ[c][r] # members
    /\ typ' = [typ EXCEPT ![c][r] = members]
    /\ typingUsers' = IF r # cl[c].capRoom THEN typingUsers
                      ELSE typingNames(members, cl[c].capUser)
    /\ dirty' = (typingUsers' # typingUsers)
    /\ last' = [NoLast EXCEPT !.op = "typing", !.c = c, !.r = r]
    /\ UNCHANGED <<storage, session, client, rooms, activeRoomId, events, message, isMobile,
                   newChatOpen, newChatInput, newChatBusy, typingTimer, typingActive,
                   activeRoom, memoDeps, connDeps, connCleanup, roomDeps, cl, known, tl,
                   nextClient, rustCrypto, timeouts, receiptDeps, roomsClient, query, bursts, loginCall, logoutCalls, sends, dmCalls,
                   wire, switchRead>>

\* mutant of startsAfterCrypto: a rejected initRustCrypto ends the async block
startsAfterCrypto_Throws(ok) == ok

\* the async block goes on to startClient after the awaited initRustCrypto settled with
\* outcome ok (resolved) or ~ok (rejected): the await stands in a try block whose catch
\* only logs
startsAfterCrypto(ok) == ok \/ ~ok

\* initRustCrypto settles (resolved or rejected): the async block goes on to startClient
CryptoSettled(c, ok) ==
    /\ Idle
    /\ cl[c].crypto = "pending"
    /\ cl' = [cl EXCEPT ![c].crypto = "none", ![c].running = startsAfterCrypto(ok)]
    /\ last' = [NoLast EXCEPT !.op = "startClient", !.c = c,
                              !.why = IF ok THEN {"resolved"} ELSE {"rejected"}]
    /\ UNCHANGED <<storage, session, client, rooms, activeRoomId, events, message, isMobile,
                   newChatOpen, newChatInput, newChatBusy, typingUsers, typingTimer,
                   typingActive, activeRoom, memoDeps, connDeps, connCleanup, roomDeps, dirty,
                   known, tl, typ, nextClient, rustCrypto, timeouts, receiptDeps, roomsClient, query, bursts, loginCall, logoutCalls,
                   sends, dmCalls, wire, switchRead>>

\* ------------------------------------------------------------ presentation layer
\* RoomList onOpen (mobile shows the list only while no room is selected)
SelectRoom(r) ==
    /\ Idle /\ session # NoSession /\ CanCreate
    /\ r \in Range(rooms)
    /\ isMobile => activeRoomId = NoRoom
    /\ r # activeRoomId
    /\ activeRoomId' = r
    /\ dirty' = TRUE
    /\ last' = [NoLast EXCEPT !.op = "select", !.r = r]
    /\ UNCHANGED <<storage, session, client, rooms, events, message, isMobile, newChatOpen,
                   newChatInput, newChatBusy, typingUsers, typingTimer, typingActive,
                   activeRoom, memoDeps, connDeps, connCleanup, roomDeps, cl, known, tl, typ,
                   nextClient, rustCrypto, timeouts, receiptDeps, roomsClient, query, bursts, loginCall, logoutCalls, sends, dmCalls,
                   wire, switchRead>>

\* SearchBox onChange (the search box stands above the room list)
SetQuery(text) ==
    /\ Idle /\ session # NoSession
    /\ isMobile => activeRoomId = NoRoom
    /\ text # query
    /\ query' = text
    /\ dirty' = TRUE
    /\ last' = Did("query")
    /\ UNCHANGED <<storage, session, client, rooms, activeRoomId, events, message, isMobile,
                   newChatOpen, newChatInput, newChatBusy, typingUsers, typingTimer,
                   typingActive, activeRoom, memoDeps, connDeps, connCleanup, roomDeps, cl,
                   known, tl, typ, nextClient, rustCrypto, timeouts, receiptDeps, roomsClient, bursts, loginCall,
                   logoutCalls, sends, dmCalls, wire, switchRead>>

\* ChatView onBack (passed to ChatView in the mobile layout only)
Back ==
    /\ Idle /\ session # NoSession /\ CanCreate
    /\ isMobile /\ activeRoomId # NoRoom
    /\ activeRoomId' = NoRoom
    /\ dirty' = TRUE
    /\ last' = Did("back")
    /\ UNCHANGED <<storage, session, client, rooms, events, message, isMobile, newChatOpen,
                   newChatInput, newChatBusy, typingUsers, typingTimer, typingActive,
                   activeRoom, memoDeps, connDeps, connCleanup, roomDeps, cl, known, tl, typ,
                   nextClient, rustCrypto, timeouts, receiptDeps, roomsClient, query, bursts, loginCall, logoutCalls, sends, dmCalls,
                   wire, switchRead>>

\* window "resize" crossing the 900px breakpoint; onResize
Resize ==
    /\ Idle
    /\ session # NoSession => CanCreate
    /\ isMobile' = ~isMobile
    /\ dirty' = TRUE
    /\ last' = Did("resize")
    /\ UNCHANGED <<storage, session, client, rooms, activeRoomId, events, message,
                   newChatOpen, newChatInput, newChatBusy, typingUsers, typingTimer,
                   typingActive, activeRoom, memoDeps, connDeps, connCleanup, roomDeps, cl,
                   known, tl, typ, nextClient, rustCrypto, timeouts, receiptDeps, roomsClient, query, bursts, loginCall, logoutCalls,
                   sends, dmCalls, wire, switchRead>>

\* ------------------------------------------------------------ typing signals
\* the synchronous part of sendTyping(isTyping) as a closure over client c and room r:
\* the new typingActiveRef and the request it issues (if any)
sendTypingActive(c, r, isTyping) == IF c = NoClient \/ r = NoRoom THEN typingActive ELSE isTyping

sendTypingWire(w, c, r, isTyping) ==
    IF c = NoClient \/ r = NoRoom THEN w
    ELSE Transmit(w, [kind |-> "typing", c |-> c, room |-> r, typing |-> isTyping,
                      timeout |-> IF isTyping THEN 4000 ELSE 0, body |-> <<>>])

\* mutant of typingDelay: the inactivity interval is used for blank text as well
typingDelay_Inactivity(next) == 2200

\* the delay of the timeout onComposerChange schedules for composer text next
typingDelay(next) == IF Trim(next) = <<>> THEN 200 ELSE 2200

RemoveAt(s, i) == SubSeq(s, 1, i - 1) \o SubSeq(s, i + 1, Len(s))

\* mutant of clearTimeout: the pending timeout is left in place
clearTimeout_Leaves(ts, t) == ts

\* clearTimeout(typingTimerRef.current): the timeout the ref designates is cancelled when it
\* is still pending (a handle that has fired, or null, cancels nothing)
clearTimeout(ts, t) ==
    LET ix == {i \in 1..Len(ts) : ts[i] = t}
    IN  IF ix = {} THEN ts ELSE RemoveAt(ts, CHOOSE i \in ix : TRUE)

setTimeout(ts, t) == Append(ts, t)

\* composer input changes to next; onComposerChange
ComposerChange(next) ==
    /\ Idle /\ ChatViewShown
    /\ next # message
    /\ message' = next
    /\ LET t == [c |-> client, r |-> activeRoomId, ms |-> typingDelay(next)]
       IN  /\ timeouts' = setTimeout(clearTimeout(timeouts, typingTimer), t)
           /\ typingTimer' = t
    /\ IF Trim(next) = <<>>
       THEN UNCHANGED <<typingActive, wire>>
       ELSE /\ typingActive' = sendTypingActive(client, activeRoomId, TRUE)
            /\ wire' = sendTypingWire(wire, client, activeRoomId, TRUE)
    /\ dirty' = TRUE
    /\ last' = Did("composer")
    /\ UNCHANGED <<storage, session, client, rooms, activeRoomId, events, isMobile,
                   newChatOpen, newChatInput, newChatBusy, typingUsers, activeRoom, memoDeps,
                   connDeps, connCleanup, roomDeps, cl, known, tl, typ, nextClient, rustCrypto,
                   receiptDeps, roomsClient, query, bursts, loginCall, logoutCalls, sends,
                   dmCalls, switchRead>>

\* the pending typing timeout fires: sendTyping(false) of the render that scheduled it
TypingTimerFires ==
    /\ Idle
    /\ \E i \in 1..Len(timeouts) :
          LET t == timeouts[i]
          IN  /\ typingActive' = sendTypingActive(t.c, t.r, FALSE)
              /\ wire' = sendTypingWire(wire, t.c, t.r, FALSE)
              /\ timeouts' = RemoveAt(timeouts, i)
              /\ typingTimer' = IF typingTimer = t THEN NoTimer ELSE typingTimer
              /\ last' = [NoLast EXCEPT !.op = "typingTimer", !.c = t.c, !.r = t.r, !.k = t.ms]
    /\ UNCHANGED <<storage, session, client, rooms, activeRoomId, events, message, isMobile,
                   newChatOpen, newChatInput, newChatBusy, typingUsers, activeRoom, memoDeps,
                   connDeps, connCleanup, roomDeps, dirty, cl, known, tl, typ, nextClient,
                   rustCrypto, receiptDeps, roomsClient, query, bursts, loginCall, logoutCalls,
                   sends, dmCalls, switchRead>>

\* ------------------------------------------------------------ send
\* mutant of sendIsNoop: the text is tested without trimming
sendIsNoop_Untrimmed(c, r, msg) == c = NoClient \/ r = NoRoom \/ msg = <<>>

\* send() returns before doing anything
sendIsNoop(c, r, msg) == c = NoClient \/ r = NoRoom \/ Trim(msg) = <<>>

\* onSend (Enter key or Send button): send() up to its first await
Send ==
    /\ Idle /\ ChatViewShown
    /\ IF sendIsNoop(client, activeRoomId, message)
       THEN UNCHANGED <<sends, wire>>
       ELSE /\ Len(sends) < MaxSends
            /\ wire' = Transmit(wire, [kind |-> "typing", c |-> client, room |-> activeRoomId,
                                       typing |-> FALSE, timeout |-> 0, body |-> <<>>])
            /\ sends' = Append(sends, [phase |-> "typing", c |-> client, r |-> activeRoomId,
                                       text |-> Trim(message)])
    /\ last' = [NoLast EXCEPT !.op = "send", !.c = client, !.r = activeRoomId,
                              !.why = IF sendIsNoop(client, activeRoomId, message)
                                      THEN {"noop"} ELSE {}]
    /\ UNCHANGED <<storage, session, client, rooms, activeRoomId, events, message, isMobile,
                   newChatOpen, newChatInput, newChatBusy, typingUsers, typingTimer,
                   typingActive, activeRoom, memoDeps, connDeps, connCleanup, roomDeps, dirty,
                   cl, known, tl, typ, nextClient, rustCrypto, timeouts, receiptDeps, roomsClient, query, bursts, loginCall, logoutCalls,
                   dmCalls, switchRead>>

\* mutant of sendProceeds: a rejected sendTyping ends send()
sendProceeds_Throws(ok) == ok

\* send() goes on after the awaited sendTyping(false) settled with outcome ok (resolved) or
\* ~ok (rejected): the await stands in a try block with an empty catch
sendProceeds(ok) == ok \/ ~ok

\* the awaited sendTyping(false) settles (resolved or rejected): send() issues sendEvent
SendTypingSettled(i, ok) ==
    /\ Idle
    /\ i \in 1..Len(sends) /\ sends[i].phase = "typing"
    /\ IF sendProceeds(ok)
       THEN /\ wire' = Transmit(wire, [kind |-> "message", c |-> sends[i].c, room |-> sends[i].r,
                                       typing |-> FALSE, timeout |-> 0, body |-> sends[i].text])
            /\ sends' = [sends EXCEPT ![i].phase = "event"]
       ELSE /\ sends' = RemoveAt(sends, i)
            /\ UNCHANGED wire
    /\ last' = [NoLast EXCEPT !.op = "sendEvent", !.c = sends[i].c, !.r = sends[i].r,
                              !.why = IF ok THEN {"resolved"} ELSE {"rejected"}]
    /\ UNCHANGED <<storage, session, client, rooms, activeRoomId, events, message, isMobile,
                   newChatOpen, newChatInput, newChatBusy, typingUsers, typingTimer,
                   typingActive, activeRoom, memoDeps, connDeps, connCleanup, roomDeps, dirty,
                   cl, known, tl, typ, nextClient, rustCrypto, timeouts, receiptDeps, roomsClient, query, bursts, loginCall, logoutCalls,
                   dmCalls, switchRead>>

\* the awaited sendEvent resolves: setMessage("")
SendEventResolved(i) ==
    /\ Idle
    /\ i \in 1..Len(sends) /\ sends[i].phase = "event"
    /\ message' = <<>>
    /\ sends' = RemoveAt(sends, i)
    /\ dirty' = (message # <<>>)
    /\ last' = [NoLast EXCEPT !.op = "sendDone", !.c = sends[i].c, !.r = sends[i].r]
    /\ UNCHANGED <<storage, session, client, rooms, activeRoomId, events, isMobile,
                   newChatOpen, newChatInput, newChatBusy, typingUsers, typingTimer,
                   typingActive, activeRoom, memoDeps, connDeps, connCleanup, roomDeps,
                   cl, known, tl, typ, nextClient, rustCrypto, timeouts, receiptDeps, roomsClient, query, bursts, loginCall, logoutCalls,
                   dmCalls, wire, switchRead>>

\* what becomes of a rejection of send(): no handler of the composer (Enter key, Send
\* button) awaits or catches the promise send() returns
sendFailureNotice == "unhandled"

\* the awaited sendEvent rejects: send() throws, nothing after the await runs
SendEventRejected(i) ==
    /\ Idle
    /\ i \in 1..Len(sends) /\ sends[i].phase = "event"
    /\ sends' = RemoveAt(sends, i)
    /\ last' = [NoLast EXCEPT !.op = "sendFailed", !.c = sends[i].c, !.r = sends[i].r,
                              !.notice = sendFailureNotice]
    /\ UNCHANGED <<storage, session, client, rooms, activeRoomId, events, message, isMobile,
                   newChatOpen, newChatInput, newChatBusy, typingUsers, typingTimer,
                   typingActive, activeRoom, memoDeps, connDeps, connCleanup, roomDeps, dirty,
                   cl, known, tl, typ, nextClient, rustCrypto, timeouts, receiptDeps, roomsClient, query, bursts, loginCall, logoutCalls,
                   dmCalls, wire, switchRead>>

\* ------------------------------------------------------------ login / logout
\* Login form submit (the button is disabled while loading or while the homeserver is blank):
\* login() up to its await
LoginSubmit(hs) ==
    /\ Idle /\ session = NoSession
    /\ loginCall = <<>>
    /\ Trim(hs) # <<>>
    /\ LET baseUrl == normalizeHomeserver(hs)
       IN  IF baseUrl = <<>>
           THEN /\ last' = [NoLast EXCEPT !.op = "loginFailed", !.notice = "form"]
                /\ UNCHANGED <<loginCall, wire>>
           ELSE /\ loginCall' = baseUrl
                /\ wire' = wire
                /\ last' = [NoLast EXCEPT !.op = "login", !.input = hs]
    /\ UNCHANGED <<storage, session, client, rooms, activeRoomId, events, message, isMobile,
                   newChatOpen, newChatInput, newChatBusy, typingUsers, typingTimer,
                   typingActive, activeRoom, memoDeps, connDeps, connCleanup, roomDeps, dirty,
                   cl, known, tl, typ, nextClient, rustCrypto, timeouts, receiptDeps, roomsClient, query, bursts, logoutCalls, sends,
                   dmCalls, switchRead>>

\* the password exchange resolves with res: saveSession(s); setSession(s)
LoginResolved(res) ==
    /\ Idle /\ CanCreate
    /\ loginCall # <<>>
    /\ LET s == JsonValue("object", loginCall, res.access_token, res.user_id, res.device_id)
       IN  /\ storage' = s
           /\ session' = s
    /\ loginCall' = <<>>
    /\ dirty' = TRUE
    /\ last' = Did("loginDone")
    /\ UNCHANGED <<client, rooms, activeRoomId, events, message, isMobile,
                   newChatOpen, newChatInput, newChatBusy, typingUsers, typingTimer,
                   typingActive, activeRoom, memoDeps, connDeps, connCleanup, roomDeps,
                   cl, known, tl, typ, nextClient, rustCrypto, timeouts, receiptDeps, roomsClient, query, bursts, logoutCalls, sends,
                   dmCalls, wire, switchRead>>

\* mutant of LoginRejected: the exchange is issued again instead of throwing
LoginRejected_Retries ==
    /\ Idle
    /\ loginCall # <<>>
    /\ last' = [NoLast EXCEPT !.op = "loginFailed", !.notice = "none"]
    /\ UNCHANGED <<storage, session, client, rooms, activeRoomId, events, message, isMobile,
                   newChatOpen, newChatInput, newChatBusy, typingUsers, typingTimer,
                   typingActive, activeRoom, memoDeps, connDeps, connCleanup, roomDeps, dirty,
                   cl, known, tl, typ, nextClient, rustCrypto, timeouts, receiptDeps, roomsClient, query, bursts,
                   loginCall, logoutCalls, sends, dmCalls, wire, switchRead>>

\* the password exchange rejects: login() throws to the form, which shows the message
LoginRejected ==
    /\ Idle
    /\ loginCall # <<>>
    /\ loginCall' = <<>>
    /\ last' = [NoLast EXCEPT !.op = "loginFailed", !.notice = "form"]
    /\ UNCHANGED <<storage, session, client, rooms, activeRoomId, events, message, isMobile,
                   newChatOpen, newChatInput, newChatBusy, typingUsers, typingTimer,
                   typingActive, activeRoom, memoDeps, connDeps, connCleanup, roomDeps, dirty,
                   cl, known, tl, typ, nextClient, rustCrypto, timeouts, receiptDeps, roomsClient, query, bursts, logoutCalls, sends,
                   dmCalls, wire, switchRead>>

\* logout() after its try block: clearSession() and the setters
logoutClears ==
    /\ storage' = NoSession
    /\ client' = NoClient
    /\ session' = NoSession
    /\ rooms' = <<>>
    /\ roomsClient' = NoClient
    /\ tl' = ReleaseStore(tl, roomsClient, NoClient)
    /\ activeRoomId' = NoRoom
    /\ events' = <<>>
    /\ message' = <<>>
    /\ typingUsers' = <<>>
    /\ dirty' = TRUE

\* Logout button: logout() up to its await (straight through when there is no client)
Logout ==
    /\ Idle /\ session # NoSession
    /\ IF client = NoClient
       THEN /\ logoutClears
            /\ last' = Did("logoutDone")
            /\ UNCHANGED <<logoutCalls, wire>>
       ELSE /\ logoutCalls < MaxLogouts
            /\ logoutCalls' = logoutCalls + 1
            /\ wire' = wire
            /\ last' = [NoLast EXCEPT !.op = "logout", !.c = client]
            /\ UNCHANGED <<storage, session, client, rooms, activeRoomId, events, message,
                           typingUsers, dirty, roomsClient, tl>>
    /\ UNCHANGED <<isMobile, newChatOpen, newChatInput, newChatBusy, typingTimer,
                   typingActive, activeRoom, memoDeps, connDeps, connCleanup, roomDeps,
                   cl, known, typ, nextClient, rustCrypto, timeouts, receiptDeps, query, bursts, loginCall, sends,
                   dmCalls, switchRead>>

\* the awaited client.logout() settles (resolved, or rejected and caught)
LogoutSettled ==
    /\ Idle
    /\ logoutCalls > 0
    /\ logoutCalls' = logoutCalls - 1
    /\ logoutClears
    /\ last' = Did("logoutDone")
    /\ UNCHANGED <<isMobile, newChatOpen, newChatInput, newChatBusy, typingTimer,
                   typingActive, activeRoom, memoDeps, connDeps, connCleanup, roomDeps,
                   cl, known, typ, nextClient, rustCrypto, timeouts, receiptDeps, query, bursts, loginCall, sends,
                   dmCalls, wire, switchRead>>

\* ------------------------------------------------------------ new-chat dialog
OpenNewChat ==
    /\ Idle /\ session # NoSession
    /\ ~newChatOpen
    /\ newChatOpen' = TRUE
    /\ dirty' = TRUE
    /\ last' = Did("newChat")
    /\ UNCHANGED <<storage, session, client, rooms, activeRoomId, events, message, isMobile,
                   newChatInput, newChatBusy, typingUsers, typingTimer, typingActive,
                   activeRoom, memoDeps, connDeps, connCleanup, roomDeps, cl, known, tl, typ,
                   nextClient, rustCrypto, timeouts, receiptDeps, roomsClient, query, bursts, loginCall, logoutCalls, sends, dmCalls,
                   wire, switchRead>>

\* Modal onClose / Cancel
CloseNewChat ==
    /\ Idle /\ session # NoSession
    /\ newChatOpen /\ ~newChatBusy
    /\ newChatOpen' = FALSE
    /\ dirty' = TRUE
    /\ last' = Did("closeNewChat")
    /\ UNCHANGED <<storage, session, client, rooms, activeRoomId, events, message, isMobile,
                   newChatInput, newChatBusy, typingUsers, typingTimer, typingActive,
                   activeRoom, memoDeps, connDeps, connCleanup, roomDeps, cl, known, tl, typ,
                   nextClient, rustCrypto, timeouts, receiptDeps, roomsClient, query, bursts, loginCall, logoutCalls, sends, dmCalls,
                   wire, switchRead>>

NewChatType(next) ==
    /\ Idle /\ session # NoSession
    /\ newChatOpen /\ next # newChatInput
    /\ newChatInput' = next
    /\ dirty' = TRUE
    /\ last' = Did("newChatInput")
    /\ UNCHANGED <<storage, session, client, rooms, activeRoomId, events, message, isMobile,
                   newChatOpen, newChatBusy, typingUsers, typingTimer, typingActive,
                   activeRoom, memoDeps, connDeps, connCleanup, roomDeps, cl, known, tl, typ,
                   nextClient, rustCrypto, timeouts, receiptDeps, roomsClient, query, bursts, loginCall, logoutCalls, sends, dmCalls,
                   wire, switchRead>>

\* startDM() returns before doing anything
startDMIsNoop(c, uid, input) == c = NoClient \/ uid = <<>> \/ normalizeMxId(input, uid) = <<>>

\* Create button (disabled while busy or while the input is blank): startDM() up to its await
StartDM ==
    /\ Idle /\ session # NoSession
    /\ newChatOpen /\ ~newChatBusy /\ Trim(newChatInput) # <<>>
    /\ IF startDMIsNoop(client, myUserId, newChatInput)
       THEN UNCHANGED <<newChatBusy, dmCalls, wire, dirty>>
       ELSE /\ newChatBusy' = TRUE
            /\ dmCalls' = dmCalls + 1
            /\ wire' = Transmit(wire, Request("createRoom", client, NoRoom,
                                              normalizeMxId(newChatInput, myUserId)))
            /\ dirty' = TRUE
    /\ last' = [NoLast EXCEPT !.op = "startDM", !.c = client]
    /\ UNCHANGED <<storage, session, client, rooms, activeRoomId, events, message, isMobile,
                   newChatOpen, newChatInput, typingUsers, typingTimer, typingActive,
                   activeRoom, memoDeps, connDeps, connCleanup, roomDeps, cl, known, tl, typ,
                   nextClient, rustCrypto, timeouts, receiptDeps, roomsClient, query, bursts, loginCall, logoutCalls, sends,
                   switchRead>>

\* the awaited createRoom resolves with room id roomId (NoRoom: the response carries none)
DmResolved(roomId) ==
    /\ Idle
    /\ dmCalls > 0
    /\ (session # NoSession /\ roomId # NoRoom /\ roomId # activeRoomId) => CanCreate
    /\ dmCalls' = dmCalls - 1
    /\ newChatOpen' = FALSE
    /\ newChatInput' = <<>>
    /\ activeRoomId' = IF roomId # NoRoom THEN roomId ELSE activeRoomId
    /\ newChatBusy' = FALSE
    /\ dirty' = TRUE
    /\ last' = [NoLast EXCEPT !.op = "dmDone", !.r = roomId]
    /\ UNCHANGED <<storage, session, client, rooms, events, message, isMobile,
                   typingUsers, typingTimer, typingActive,
                   activeRoom, memoDeps, connDeps, connCleanup, roomDeps, cl, known, tl, typ,
                   nextClient, rustCrypto, timeouts, receiptDeps, roomsClient, query, bursts, loginCall, logoutCalls, sends,
                   wire, switchRead>>

\* mutant of DmRejected: the dialog is closed and emptied as after a success
DmRejected_Closes ==
    /\ Idle
    /\ dmCalls > 0
    /\ dmCalls' = dmCalls - 1
    /\ newChatOpen' = FALSE
    /\ newChatInput' = <<>>
    /\ newChatBusy' = FALSE
    /\ dirty' = TRUE
    /\ last' = [NoLast EXCEPT !.op = "dmFailed", !.notice = "alert"]
    /\ UNCHANGED <<storage, session, client, rooms, activeRoomId, events, message, isMobile,
                   typingUsers, typingTimer, typingActive,
                   activeRoom, memoDeps, connDeps, connCleanup, roomDeps, cl, known, tl, typ,
                   nextClient, rustCrypto, timeouts, receiptDeps, roomsClient, query, bursts, loginCall, logoutCalls,
                   sends, wire, switchRead>>

\* the awaited createRoom rejects: alert(message); finally setNewChatBusy(false)
DmRejected ==
    /\ Idle
    /\ dmCalls > 0
    /\ dmCalls' = dmCalls - 1
    /\ newChatBusy' = FALSE
    /\ dirty' = TRUE
    /\ last' = [NoLast EXCEPT !.op = "dmFailed", !.notice = "alert"]
    /\ UNCHANGED <<storage, session, client, rooms, activeRoomId, events, message, isMobile,
                   newChatOpen, newChatInput, typingUsers, typingTimer, typingActive,
                   activeRoom, memoDeps, connDeps, connCleanup, roomDeps, cl, known, tl, typ,
                   nextClient, rustCrypto, timeouts, receiptDeps, roomsClient, query, bursts, loginCall, logoutCalls, sends,
                   wire, switchRead>>

\* ------------------------------------------------------------ specification
Timestamps == [RoomIds -> 0..MaxTs]

Next ==
    \/ Commit
    \/ \E c \in ClientIds, r \in RoomIds, ts \in Timestamps : SdkRoom(c, r, ts)
    \/ \E c \in ClientIds, ts \in Timestamps : SdkSync(c, ts)
    \/ \E c \in ClientIds, r \in RoomIds, k \in BurstSizes, hist \in BOOLEAN,
          shape \in EventShapes : SdkTimeline(c, r, k, hist, shape)
    \/ \E c \in ClientIds, r \in RoomIds, m \in TypingLists : SdkTyping(c, r, m)
    \/ \E c \in ClientIds, ok \in BOOLEAN : CryptoSettled(c, ok)
    \/ \E r \in RoomIds : SelectRoom(r)
    \/ \E t \in Queries : SetQuery(t)
    \/ Back
    \/ Resize
    \/ \E t \in ComposerTexts : ComposerChange(t)
    \/ TypingTimerFires
    \/ Send
    \/ \E i \in 1..MaxSends, ok \in BOOLEAN : SendTypingSettled(i, ok)
    \/ \E i \in 1..MaxSends : SendEventResolved(i)
    \/ \E i \in 1..MaxSends : SendEventRejected(i)
    \/ \E hs \in HomeserverInputs : LoginSubmit(hs)
    \/ LoginResolved(LoginResult)
    \/ LoginRejected
    \/ Logout
    \/ LogoutSettled
    \/ OpenNewChat
    \/ CloseNewChat
    \/ \E t \in DmInputs : NewChatType(t)
    \/ StartDM
    \/ \E r \in RoomIds \cup {NoRoom} : DmResolved(r)
    \/ DmRejected

Spec == Init /\ [][Next]_vars

\* Timeline reconciliation: a stored or absent session, room selection, sync responses
\* with live and back-filled events, logout.  Rooms carry no timestamps and the SDK build
\* has no initRustCrypto.
NoTimestamps == [r \in RoomIds |-> 0]

NextTimeline ==
    \/ Commit
    \/ \E c \in ClientIds, r \in RoomIds : SdkRoom(c, r, NoTimestamps)
    \/ \E c \in ClientIds : SdkSync(c, NoTimestamps)
    \/ \E c \in ClientIds, r \in RoomIds, k \in BurstSizes, hist \in BOOLEAN :
          SdkTimeline(c, r, k, hist, TextFromBob)
    \/ \E r \in RoomIds : SelectRoom(r)
    \/ Back
    \/ Logout
    \/ LogoutSettled

\* The build without initRustCrypto: the client starts inside the effect.
InitPlain == Init /\ ~rustCrypto

SpecTimeline == InitPlain /\ [][NextTimeline]_vars

\* Connection lifecycle: login, logout, every way the selection changes (room list, back,
\* auto-open, new direct chat), resize, and initRustCrypto present or absent.
NextConnection ==
    \/ Commit
    \/ \E c \in ClientIds, r \in RoomIds : SdkRoom(c, r, NoTimestamps)
    \/ \E c \in ClientIds, ok \in BOOLEAN : CryptoSettled(c, ok)
    \/ \E r \in RoomIds : SelectRoom(r)
    \/ Back
    \/ Resize
    \/ \E hs \in HomeserverInputs : LoginSubmit(hs)
    \/ LoginResolved(LoginResult)
    \/ LoginRejected
    \/ Logout
    \/ LogoutSettled
    \/ OpenNewChat
    \/ \E t \in DmInputs : NewChatType(t)
    \/ StartDM
    \/ \E r \in RoomIds \cup {NoRoom} : DmResolved(r)
    \/ DmRejected

SpecConnection == Init /\ [][NextConnection]_vars

\* Composer: typing signals, the typing timer, send() and logout in a selected room.
NextComposer ==
    \/ Commit
    \/ \E c \in ClientIds, r \in RoomIds : SdkRoom(c, r, NoTimestamps)
    \/ \E r \in RoomIds : SelectRoom(r)
    \/ \E t \in ComposerTexts : ComposerChange(t)
    \/ TypingTimerFires
    \/ Send
    \/ \E i \in 1..MaxSends, ok \in BOOLEAN : SendTypingSettled(i, ok)
    \/ \E i \in 1..MaxSends : SendEventResolved(i)
    \/ \E i \in 1..MaxSends : SendEventRejected(i)
    \/ Logout
    \/ LogoutSettled

SpecComposer == InitPlain /\ [][NextComposer]_vars

\* Room registry: refreshes on "Room" and "sync" with every assignment of last-activity
\* timestamps (0: the room has none), and room selection.
NextRegistry ==
    \/ Commit
    \/ \E c \in ClientIds, r \in RoomIds, ts \in Timestamps : SdkRoom(c, r, ts)
    \/ \E c \in ClientIds, ts \in Timestamps : SdkSync(c, ts)
    \/ \E r \in RoomIds : SelectRoom(r)

SpecRegistry == InitPlain /\ [][NextRegistry]_vars

\* Typing set: typing notifications and sync of the client, room selection and back.
NextPresence ==
    \/ Commit
    \/ \E c \in ClientIds, r \in RoomIds : SdkRoom(c, r, NoTimestamps)
    \/ \E c \in ClientIds : SdkSync(c, NoTimestamps)
    \/ \E c \in ClientIds, r \in RoomIds, m \in TypingLists : SdkTyping(c, r, m)
    \/ \E r \in RoomIds : SelectRoom(r)
    \/ Back

SpecPresence == InitPlain /\ [][NextPresence]_vars

\* Typing signals across room changes: composer input, the typing timer, and the
\* selection changing by the room list, the back button and a new direct chat.  Pending
\* renders are committed, and the user does not type for ever without the pause that
\* lets a pending timer fire.
NextTyping ==
    \/ Commit
    \/ \E c \in ClientIds, r \in RoomIds : SdkRoom(c, r, NoTimestamps)
    \/ \E r \in RoomIds : SelectRoom(r)
    \/ Back
    \/ \E t \in ComposerTexts : ComposerChange(t)
    \/ TypingTimerFires
    \/ OpenNewChat
    \/ \E t \in DmInputs : NewChatType(t)
    \/ StartDM
    \/ \E r \in RoomIds \cup {NoRoom} : DmResolved(r)
    \/ DmRejected

SpecTyping ==
    InitPlain /\ [][NextTyping]_vars /\ WF_vars(Commit) /\ SF_vars(TypingTimerFires)

\* ------------------------------------------------------------ claims
\* C1: between handlers (no render or effect pending) every event of the timeline
\* sequence belongs to the selected room, and the sequence is empty when no room is
\* selected; so after a switch from A to B only B's events are held.
C1_TimelineOfActiveRoom ==
    Idle => /\ \A i \in 1..Len(events) : events[i].room = activeRoomId
            /\ activeRoomId = NoRoom => events = <<>>

\* a switch from A (whose events were held) to B, after which B's events are held
C1_Witness ==
    /\ Idle /\ activeRoomId = "B" /\ events # <<>>
    /\ switchRead.room = "B" /\ switchRead.from = "A" /\ switchRead.dropped

\* C4 (as claimed): after the selection changed to a room the connection knows, the
\* timeline sequence equals the live history read from that room, until the next live
\* append or selection change; after a change to no room or an unknown room it is empty.
C4_TimelineIsLiveHistory == (Idle /\ switchRead.fresh) => events = switchRead.tl

C6_AppendFifo ==
    [][(last'.op = "Room.timeline" /\ ~last'.hist /\ last'.r = activeRoomId)
          => events' = LastN(events \o Burst(last'.c, last'.r, last'.k, FALSE, last'.shape), Window)]_vars

\* a live append has evicted the oldest event of a full window
C6_Witness ==
    /\ last.op = "Room.timeline" /\ ~last.hist /\ last.r = activeRoomId
    /\ Len(events) = Window /\ events[1].id = 2 /\ events[Window].id = Window + 1

\* C7 (as claimed): the timeline sequence never holds more than Window events.
C7_TimelineBounded == Len(events) <= Window

\* C8: the live events of the timeline sequence stand in the order the connection
\* delivered them, each once: they form one run at the tail of the sequence, and within
\* the run every event was delivered (by the same client) before its successor.
C8_DeliveryOrder ==
    \A i \in 1..(Len(events) - 1) :
        /\ events[i].live => events[i + 1].live
        /\ (events[i].live /\ events[i + 1].live) =>
              /\ events[i].c = events[i + 1].c
              /\ events[i].id < events[i + 1].id

\* two live events delivered one after the other are held
C8_Witness ==
    /\ Len(events) = 2 /\ events[1].live /\ events[2].live
    /\ last.op = "Room.timeline" /\ ~last.hist /\ last.k = 1 /\ last.r = activeRoomId

\* C2 (as claimed): when the connection effect re-runs because the selection changed
\* while the Session did not, it stops no client and constructs none.
C2_SelectionKeepsClient ==
    (last.op = "commit" /\ "activeRoomId" \in last.why /\ "session" \notin last.why)
        => (last.old = NoClient /\ last.c = NoClient)

Running == {c \in ClientIds : cl[c].running}

\* C3 (as claimed): at most one client has a running synchronization loop, and no client
\* that was torn down is running.
C3_OneRunningClient ==
    /\ Cardinality(Running) <= 1
    /\ \A c \in ClientIds : cl[c].torn => ~cl[c].running

\* C9 (as claimed): when logout() has completed, the persisted record, the Session and the
\* client are gone, rooms, selection, timeline, typing set and composer are empty, and the
\* outgoing typing state is idle with no typing timer pending.
C9_LogoutResetsAll ==
    last.op = "logoutDone" =>
        /\ storage = NoSession /\ session = NoSession /\ client = NoClient
        /\ rooms = <<>> /\ activeRoomId = NoRoom /\ events = <<>>
        /\ typingUsers = <<>> /\ message = <<>>
        /\ ~typingActive /\ typingTimer = NoTimer

\* C10: send() with no client, no selected room or a composer text that is blank after
\* trimming transmits nothing and changes nothing.
C10_SendNoop ==
    [][(last'.op = "send" /\ (client = NoClient \/ activeRoomId = NoRoom \/ Trim(message) = <<>>))
          => UNCHANGED <<storage, session, client, rooms, activeRoomId, events, message,
                         isMobile, newChatOpen, newChatInput, newChatBusy, typingUsers,
                         typingTimer, typingActive, sends, wire, dirty>>]_vars

\* send() was invoked in a selected room on a whitespace-only composer text
C10_Witness ==
    /\ last.op = "send" /\ client # NoClient /\ activeRoomId # NoRoom
    /\ message = <<" ">> /\ sends = <<>>

\* the request issued last
LastRequest(w) == w[Len(w)]

IssuesMessage == wire' # wire /\ LastRequest(wire').kind = "message"

\* C11: send() with a selected room and non-blank text issues the "stopped typing" request
\* and no message; the message is issued only by the step in which that awaited request
\* settles, and it is issued whether the request resolved or was rejected.
C11_StopTypingAwaited ==
    [][/\ (last'.op = "send" /\ ~(client = NoClient \/ activeRoomId = NoRoom \/ Trim(message) = <<>>))
            => /\ LastRequest(wire') = [kind |-> "typing", c |-> client, room |-> activeRoomId,
                                        typing |-> FALSE, timeout |-> 0, body |-> <<>>]
               /\ \E i \in 1..Len(sends') : sends'[i].phase = "typing"
       /\ IssuesMessage
            => /\ last'.op = "sendEvent"
               /\ \E i \in 1..Len(sends) :
                     /\ sends[i].phase = "typing"
                     /\ LastRequest(wire').room = sends[i].r
                     /\ LastRequest(wire').body = sends[i].text
       /\ last'.op = "sendEvent"
            => /\ LastRequest(wire').kind = "message"
               /\ \E i \in 1..Len(sends') : sends'[i].phase = "event"]_vars

\* the typing request of a send() was rejected and its message was issued all the same
C11_Witness ==
    /\ last.op = "sendEvent" /\ "rejected" \in last.why
    /\ wire # <<>> /\ LastRequest(wire).kind = "message" /\ LastRequest(wire).body = <<"a">>

\* C12 (as claimed): once send() has issued its message, the typing flag is false and no
\* typing timer scheduled by earlier composer input is pending.
C12_IdleAfterSend ==
    last.op \in {"sendEvent", "sendDone"} => (~typingActive /\ typingTimer = NoTimer)

\* C13 (as claimed): when the message submission of send() is rejected, the failure is
\* shown to the user (it does not leave send() as an unhandled rejection).
C13_SendFailureSurfaced ==
    last.op = "sendFailed" => last.notice \in {"alert", "form"}

StopRequest(c, r) ==
    [kind |-> "typing", c |-> c, room |-> r, typing |-> FALSE, timeout |-> 0, body |-> <<>>]

IssuesStop == wire' # wire /\ LastRequest(wire').kind = "typing" /\ ~LastRequest(wire').typing

\* C14: a composer change from non-blank to empty text issues no request and leaves the
\* 200 ms timer pending; while that timer is pending and the composer gets no input, no
\* step issues a "stopped typing" request except the firing of the timer, which issues
\* exactly one for the room of the change, clears the typing flag and leaves no timer.
C14_EmptyDebounce ==
    [][/\ (last'.op = "composer" /\ Trim(message) # <<>> /\ message' = <<>>)
            => /\ wire' = wire
               /\ typingTimer' = [c |-> client, r |-> activeRoomId, ms |-> 200]
       /\ (typingTimer.ms = 200 /\ last'.op # "composer")
            => IF last'.op = "typingTimer"
               THEN /\ wire' = Transmit(wire, StopRequest(typingTimer.c, typingTimer.r))
                    /\ ~typingActive'
                    /\ typingTimer' = NoTimer
               ELSE /\ ~IssuesStop
                    /\ typingTimer' = typingTimer]_vars

\* the user typed, emptied the composer, and the 200 ms timer fired: "typing" then
\* "stopped typing" were issued for the room
C14_Witness ==
    /\ last.op = "typingTimer" /\ last.k = 200 /\ message = <<>> /\ ~typingActive
    /\ typingTimer = NoTimer /\ Len(wire) = 2
    /\ wire[1].kind = "typing" /\ wire[1].typing /\ wire[2] = StopRequest(last.c, last.r)

\* the outgoing typing state is signaling for room r
Signaling(r) == typingActive /\ typingTimer # NoTimer /\ typingTimer.r = r

\* the last step issued an explicit "stopped typing" request for room r
StoppedFor(r) ==
    \/ last.op = "typingTimer" /\ last.r = r
    \/ last.op = "send" /\ last.r = r /\ "noop" \notin last.why

\* C15 (as claimed): whenever the outgoing state is signaling for a room, an explicit
\* "stopped typing" request for that room is eventually issued.
C15_SignalingEndsWithStop ==
    \A r \in RoomIds : Signaling(r) ~> StoppedFor(r)

\* C16 (as claimed): in the state that follows the commit of a selection change into a
\* room, the typing flag is false and no typing timer is pending.
C16_IdleOnRoomEntry ==
    (last.op = "commit" /\ "activeRoomId" \in last.why /\ activeRoomId # NoRoom)
        => (~typingActive /\ typingTimer = NoTimer)

\* the typing members of the selected room, as the current client reports them
ActiveTyping ==
    IF client = NoClient \/ activeRoomId = NoRoom THEN <<>> ELSE typ[client][activeRoomId]

\* C17 (as claimed): no entry of the displayed typing set is derived from a typing
\* member of the selected room who is the local user, whatever name the member carries.
C17_NoLocalUserShown ==
    \A j \in 1..Len(ActiveTyping) :
        ActiveTyping[j].userId = myUserId
            => memberLabel(ActiveTyping[j]) \notin Range(typingUsers)

\* C18 (as claimed): the displayed typing set has at most 3 entries and no entry occurs
\* in it twice.
C18_TypingSetCappedDistinct ==
    /\ Len(typingUsers) <= 3
    /\ \A i, j \in 1..Len(typingUsers) : typingUsers[i] = typingUsers[j] => i = j

\* C19: after a registry refresh (updateRooms on "Room" or "sync") the room list holds
\* exactly the rooms of the client's store, each once, is non-increasing by last-activity
\* timestamp (none counting as 0), and every room without a timestamp stands after all
\* rooms that have one.
C19_RoomListSorted ==
    last.op \in {"Room", "sync"} =>
        /\ Range(rooms) = Range(known[last.c])
        /\ Len(rooms) = Cardinality(Range(known[last.c]))
        /\ \A i, j \in 1..Len(rooms) : i < j => last.ts[rooms[i]] >= last.ts[rooms[j]]
        /\ \A i, j \in 1..Len(rooms) :
              (last.ts[rooms[i]] = 0 /\ last.ts[rooms[j]] > 0) => j < i

\* a refresh put a room with a timestamp before a room without one that the store
\* lists first
C19_Witness ==
    /\ last.op \in {"Room", "sync"} /\ Len(rooms) = 2
    /\ last.ts[rooms[1]] > 0 /\ last.ts[rooms[2]] = 0
    /\ known[last.c] = <<rooms[2], rooms[1]>>

\* C20 (as claimed): a live Room.timeline notification leaves a registry refresh
\* scheduled (the 500 ms roomsUpdateTimer of the client that delivered it is set).
C20_AppendSchedulesRefresh ==
    (last.op = "Room.timeline" /\ ~last.hist) => cl[last.c].roomsTimer

\* Search: the search text, rooms joining in either order, live events with and without
\* a body (one event per sync response) and room selection.
PreviewShapes == {TextFromBob, Image, Membership}

NextSearch ==
    \/ Commit
    \/ \E c \in ClientIds, r \in RoomIds : SdkRoom(c, r, NoTimestamps)
    \/ \E c \in ClientIds, r \in RoomIds, shape \in PreviewShapes :
          SdkTimeline(c, r, 1, FALSE, shape)
    \/ \E t \in Queries : SetQuery(t)
    \/ \E r \in RoomIds : SelectRoom(r)

SpecSearch == InitPlain /\ [][NextSearch]_vars

Pos(s, x) == CHOOSE i \in 1..Len(s) : s[i] = x

\* the text contains the query as a substring when letter case is disregarded
ContainsIgnoringCase(text, q) ==
    \E i \in 1..(Len(text) + 1), j \in 0..Len(text) :
        toLowerCase(SubSeq(text, i, j)) = toLowerCase(q)

\* C21: a search text that is blank after trimming yields the room list itself; any other
\* yields, in the order of the room list, exactly the rooms whose display name or
\* last-message preview contains the trimmed text, letter case disregarded.
C21_FilterRooms ==
    LET q == Trim(query)
        res == filteredRooms
    IN  IF q = <<>> THEN res = rooms
        ELSE /\ \A r \in Range(rooms) :
                  r \in Range(res) <=> \/ ContainsIgnoringCase(roomDisplayName(r), q)
                                       \/ ContainsIgnoringCase(lastBody(roomsClient, r), q)
             /\ Range(res) \subseteq Range(rooms)
             /\ \A i, j \in 1..Len(res) : i < j => Pos(rooms, res[i]) < Pos(rooms, res[j])

\* two rooms are listed and the search text, written in another letter case than the
\* preview of the second one, keeps only that room
C21_Witness ==
    /\ Idle /\ Len(rooms) = 2 /\ query = <<"h", "I">>
    /\ lastBody(roomsClient, rooms[2]) = <<"H", "i">>
    /\ filteredRooms = <<rooms[2]>>

\* a registry refresh: the handler of "Room" or of "sync" has run updateRooms
Refreshed == last.op \in {"Room", "sync"}

\* C22: a registry refresh that finds rooms while no room is selected selects the first
\* room of the sorted list in the wide layout, and leaves the selection null in the
\* compact layout.
C22_AutoOpen ==
    [][(Refreshed' /\ activeRoomId = NoRoom /\ rooms' # <<>>)
          => activeRoomId' = IF isMobile THEN NoRoom ELSE rooms'[1]]_vars

\* the first refresh of a client in the wide layout has opened the room it found
C22_Witness ==
    /\ Refreshed /\ ~isMobile /\ rooms # <<>> /\ activeRoomId = rooms[1]
    /\ cl[last.c].capRoom = NoRoom

\* Start-up: a stored session or a login, the secure-channel initialisation present or
\* absent and settling either way, selection changes, logout.  Pending renders are
\* committed and a pending initRustCrypto settles.
NextStartup ==
    \/ Commit
    \/ \E c \in ClientIds, r \in RoomIds : SdkRoom(c, r, NoTimestamps)
    \/ \E c \in ClientIds, ok \in BOOLEAN : CryptoSettled(c, ok)
    \/ \E r \in RoomIds : SelectRoom(r)
    \/ Back
    \/ \E hs \in HomeserverInputs : LoginSubmit(hs)
    \/ LoginResolved(LoginResult)
    \/ LoginRejected
    \/ Logout
    \/ LogoutSettled

SpecStartup ==
    /\ Init /\ [][NextStartup]_vars
    /\ WF_vars(Commit)
    /\ WF_vars(\E c \in ClientIds, ok \in BOOLEAN : CryptoSettled(c, ok))

\* the client of the component is constructed for the session and startClient ran on it
Connected ==
    /\ client # NoClient /\ cl[client].made /\ cl[client].capUser = session.userId
    /\ cl[client].running

\* C23: while there is a session, a client constructed for it is eventually started,
\* whether initRustCrypto resolves, rejects or does not exist; and no client runs while
\* its initRustCrypto is pending.
C23_SessionConnects ==
    /\ [](\A c \in ClientIds : cl[c].running => cl[c].crypto # "pending")
    /\ (session # NoSession) ~> (session = NoSession \/ Connected)

\* the client of the session has been started after its initRustCrypto rejected
C23_Witness ==
    /\ session # NoSession /\ Connected
    /\ last.op = "startClient" /\ last.c = client /\ last.why = {"rejected"}

\* the Login form can be submitted: it is shown and is not loading
Resubmittable == session = NoSession /\ loginCall = <<>>

\* C24: a failed login shows its message in the form, creates and persists no session,
\* constructs no client, is not retried and leaves the form submittable; a session
\* appears only when the exchange resolves, and is persisted with the normalised
\* homeserver and the token, user id and device id of the response.
C24_LoginOutcome ==
    /\ [][last'.op = "loginFailed"
            => /\ last'.notice = "form"
               /\ session' = NoSession /\ storage' = NoSession
               /\ client' = NoClient /\ nextClient' = nextClient
               /\ Resubmittable']_vars
    /\ [][(loginCall = <<>> /\ loginCall' # <<>>) => last'.op = "login"]_vars
    /\ [][(session = NoSession /\ session' # NoSession)
            => /\ last'.op = "loginDone"
               /\ session' = [kind |-> "object", baseUrl |-> <<"https://", "hs">>,
                              accessToken |-> LoginResult.access_token,
                              userId |-> LoginResult.user_id,
                              deviceId |-> LoginResult.device_id]
               /\ storage' = session']_vars
    /\ [](session = NoSession /\ Idle => client = NoClient)

\* a login has failed after an earlier session was logged out
C24_Witness ==
    /\ last.op = "loginFailed" /\ Resubmittable /\ nextClient > 1

\* Start-up from any content of the storage key.
InitStored == InitFrom(StoredRecords)

SpecStored == InitStored /\ [][NextStartup]_vars

\* the storage key holds an object with the four fields of a session
HoldsSession(stored) ==
    /\ stored.kind = "object"
    /\ stored.baseUrl # <<>> /\ stored.accessToken # "" /\ stored.userId # <<>>
    /\ stored.deviceId # ""

\* C25 (as claimed): while the storage key holds anything but a session object (nothing,
\* text that is not JSON, another JSON value), there is no session and no client is
\* constructed.
C25_MalformedIsNoSession ==
    ~HoldsSession(storage) => (session = NoSession /\ client = NoClient)

\* New-chat dialog: opening, typing, closing, startDM() and its outcomes, with room
\* selection and logout.
NextDialog ==
    \/ Commit
    \/ \E c \in ClientIds, r \in RoomIds : SdkRoom(c, r, NoTimestamps)
    \/ \E r \in RoomIds : SelectRoom(r)
    \/ OpenNewChat
    \/ CloseNewChat
    \/ \E t \in DmInputs : NewChatType(t)
    \/ StartDM
    \/ \E r \in RoomIds \cup {NoRoom} : DmResolved(r)
    \/ DmRejected
    \/ Logout
    \/ LogoutSettled

SpecDialog == InitPlain /\ [][NextDialog]_vars

\* C26 (as claimed): when the createRoom of startDM() resolves, the dialog is closed, its
\* busy flag is cleared and the created room is the selected room.
C26_DmSuccessSelects ==
    [][last'.op = "dmDone"
          => /\ ~newChatOpen' /\ ~newChatBusy'
             /\ activeRoomId' \in RoomIds /\ activeRoomId' = last'.r]_vars

\* C27: when the createRoom of startDM() rejects, the message is shown by alert(), the
\* dialog stays open with its text, the selection is unchanged, the busy flag is cleared
\* and no request is issued again.
C27_DmFailureKeepsDialog ==
    [][last'.op = "dmFailed"
          => /\ last'.notice = "alert"
             /\ newChatOpen' /\ newChatInput' = newChatInput
             /\ activeRoomId' = activeRoomId
             /\ ~newChatBusy'
             /\ dmCalls' = 0 /\ wire' = wire]_vars

\* a creation has failed while a room was selected: the dialog still shows the name typed
C27_Witness ==
    /\ last.op = "dmFailed" /\ newChatOpen /\ Trim(newChatInput) # <<>> /\ ~newChatBusy
    /\ activeRoomId # NoRoom

\* Message view: live events of every shape (one event per sync response), room
\* selection and back.
NextRender ==
    \/ Commit
    \/ \E c \in ClientIds, r \in RoomIds : SdkRoom(c, r, NoTimestamps)
    \/ \E c \in ClientIds, r \in RoomIds, shape \in EventShapes :
          SdkTimeline(c, r, 1, FALSE, shape)
    \/ \E r \in RoomIds : SelectRoom(r)
    \/ Back

SpecRender == InitPlain /\ [][NextRender]_vars

\* the read-receipt effect of ChatView saw another count of visible messages than at its
\* last run
CountChanged ==
    /\ receiptDeps # Unmounted /\ receiptDeps' # Unmounted
    /\ receiptDeps'[4] # receiptDeps[4]

\* C28 (as claimed): a render of the message view in which the count of visible messages
\* has changed issues a read receipt for the most recent visible message sent by another
\* user; a receipt is only ever issued for that message, and none when there is no such
\* message.
C28_ReceiptForLatestOther ==
    [][last'.op = "commit"
          => LET expected == latestOther(msgEvents(events), myUserId)
             IN  /\ CountChanged => last'.receipt = expected
                 /\ last'.receipt # NoEvent => last'.receipt = expected]_vars

\* the event is of the message type and has a non-empty body
HasText(e) == e.type = "m.room.message" /\ e.body # <<>>

\* C29 (as claimed): the rendered messages are exactly the events of the timeline
\* sequence that are of the message type and have a non-empty body, in timeline order.
C29_RenderedMessages == msgEvents(events) = SelectSeq(events, HasText)

\* Recipient ids: sessions of users on servers with and without a port, every form of
\* input in the new-chat dialog, startDM() and its outcomes.
InitRecipient == InitFrom(RecipientRecords) /\ ~rustCrypto

NextRecipient ==
    \/ Commit
    \/ OpenNewChat
    \/ CloseNewChat
    \/ \E t \in RecipientInputs : NewChatType(t)
    \/ StartDM
    \/ \E r \in RoomIds \cup {NoRoom} : DmResolved(r)
    \/ DmRejected

SpecRecipient == InitRecipient /\ [][NextRecipient]_vars

\* the whole text after the first ":" of s (<<>> when s has no ":")
RECURSIVE AfterFirstColon(_)
AfterFirstColon(s) ==
    IF s = <<>> THEN <<>>
    ELSE IF Head(s) = ":" THEN Tail(s) ELSE AfterFirstColon(Tail(s))

\* the recipient id the claim describes
ExpectedRecipient(input, uid) ==
    LET v == Trim(input)
        domain == IF AfterFirstColon(uid) # <<>> THEN AfterFirstColon(uid)
                  ELSE <<"matrix.org">>
        name == IF StartsWith(v, "@") THEN Tail(v) ELSE v
    IN  IF v = <<>> THEN <<>>
        ELSE IF StartsWith(v, "@") /\ ":" \in Range(v) THEN v
        ELSE <<"@">> \o name \o <<":">> \o domain

\* C30 (as claimed): the id startDM() invites is the trimmed input when that starts with
\* "@" and contains ":", and otherwise "@" + the input without one leading "@" + ":" +
\* the whole text after the first ":" of the local user id (the default server when
\* there is none); a blank input gives the empty id.
C30_NormalizeRecipient ==
    (last.op = "startDM" /\ newChatBusy)
        => LastRequest(wire).body = ExpectedRecipient(newChatInput, myUserId)

\* ------------------------------------------------------------ homeserver normalisation
NextLogin ==
    \/ Commit
    \/ \E hs \in SchemeInputs : LoginSubmit(hs)
    \/ LoginResolved(LoginResult)
    \/ LoginRejected
    \/ Logout
    \/ LogoutSettled

SpecLogin == InitPlain /\ [][NextLogin]_vars

Schemes == {"http://", "https://"}

\* s without its leading and trailing whitespace tokens, stated by position
Stripped(s) ==
    LET ix == {i \in 1..Len(s) : s[i] # " "} IN
    IF ix = {} THEN <<>>
    ELSE SubSeq(s, CHOOSE i \in ix : \A j \in ix : i <= j,
                   CHOOSE i \in ix : \A j \in ix : j <= i)

\* C31: the server address submitted by login() is the typed address without surrounding
\* whitespace when that already begins with http:// or https://, and otherwise that text
\* with https:// put in front; a blank address gives the empty text, so the result is empty
\* or begins with a scheme
C31_NormalizeHomeserver ==
    last.op = "login" =>
        LET v == Stripped(last.input) IN
        /\ (v = <<>>) = (loginCall = <<>>)
        /\ (v # <<>> /\ v[1] \in Schemes) => loginCall = v
        /\ (v # <<>> /\ v[1] \notin Schemes) => loginCall = <<"https://">> \o v
        /\ loginCall = <<>> \/ loginCall[1] \in Schemes

C31_Witness ==
    /\ last.op = "login"
    /\ last.input = <<" ", "http://", "hs", " ">>
    /\ loginCall = <<"http://", "hs">>

\* ------------------------------------------------------------ teardown
\* the steps in which onSync, onRoomTimeline, onRoom or onTyping of a client run
HandlerOps == {"sync", "Room.timeline", "Room", "typing"}

Subscriptions == {"sync", "Room.timeline", "Room", "RoomMember.typing"}

CallIndex(call, event) ==
    {i \in 1..Len(cleanupCalls) : cleanupCalls[i].call = call /\ cleanupCalls[i].event = event}

\* C32: a teardown removes the four subscriptions of its client before it stops the sync
\* loop; it completes, and the next client is constructed in the same commit, also when
\* stopClient threw; and no handler ever runs for a client that was torn down
C32_TeardownSilences ==
    /\ last.op \in HandlerOps => ~cl[last.c].torn
    /\ (last.op = "commit" /\ last.old # NoClient) =>
          /\ \A e \in Subscriptions :
                \E i \in CallIndex("removeListener", e) :
                   \A j \in CallIndex("stopClient", "") : i < j
          /\ CallIndex("stopClient", "") # {}
          /\ cl[last.old].torn /\ ~cl[last.old].listening
          /\ session # NoSession => (last.c # NoClient /\ client = last.c
                                       /\ cl[last.c].listening /\ ~cl[last.c].torn)

C32_Witness ==
    /\ last.op = "commit" /\ last.old # NoClient /\ "stopThrew" \in last.why
    /\ last.c # NoClient /\ client = last.c
    /\ cl[last.old].torn

\* ------------------------------------------------------------ typing timer
\* C34: at most one typing timeout is pending, and it is the one typingTimerRef designates;
\* a composer change leaves exactly the timeout it scheduled (the one it superseded is
\* cancelled and cannot fire), and after a timeout has fired none is pending, so one burst
\* of composer input is followed by at most one timer-driven "stopped typing" signal
C34_OneTypingTimer ==
    /\ Len(timeouts) <= 1
    /\ timeouts = IF typingTimer = NoTimer THEN <<>> ELSE <<typingTimer>>
    /\ last.op = "composer" =>
          timeouts = << [c |-> client, r |-> activeRoomId, ms |-> typingDelay(message)] >>
    /\ last.op = "typingTimer" => timeouts = <<>>

\* the text is cleared while the timeout of the preceding non-blank change was pending
C34_Witness ==
    /\ last.op = "composer" /\ Trim(message) = <<>>
    /\ typingActive
    /\ Len(timeouts) = 1 /\ timeouts[1].ms = 200
    /\ timeouts[1].c # NoClient /\ timeouts[1].r # NoRoom

\* ------------------------------------------------------------ logout and late completions
\* C35 (as claimed): while there is no Session (from the completion of logout() to the
\* next successful login) the selection is null and the room list, the timeline and the
\* composer are empty, whatever call that was in flight completes in between.
C35_LoggedOutStaysEmpty ==
    session = NoSession =>
        /\ activeRoomId = NoRoom
        /\ rooms = <<>>
        /\ events = <<>>
        /\ message = <<>>

\* ------------------------------------------------------------ persisted session
\* C36 (as claimed): at every point the storage key holds a session record exactly when
\* the Session is non-null, the record then carries the Session's server URL, access token,
\* user id and device id, and loading the key gives the Session (the saved bundle after a
\* save, none after a clear).
C36_PersistedMatchesSession ==
    /\ HoldsSession(storage) <=> (session # NoSession)
    /\ session # NoSession =>
          /\ storage.baseUrl = session.baseUrl
          /\ storage.accessToken = session.accessToken
          /\ storage.userId = session.userId
          /\ storage.deviceId = session.deviceId
    /\ loadSession(storage) = session

\* ------------------------------------------------------------ repeated send
\* C37 (as claimed): a send() invoked while an earlier send() of the same text for the same
\* room is in flight submits nothing: no two calls in flight have both issued sendEvent
\* with one text for one room.
C37_TransmittedOnce ==
    \A i, j \in 1..Len(sends) :
        (i < j /\ sends[i].text = sends[j].text /\ sends[i].r = sends[j].r)
            => ~(sends[i].phase = "event" /\ sends[j].phase = "event")

\* ------------------------------------------------------------ text typed during a send
\* what the user types before and while a send() is in flight
DraftTexts == {<<"a">>, <<"a", "b">>, <<"c">>}

NextDraft ==
    \/ Commit
    \/ \E c \in ClientIds, r \in RoomIds : SdkRoom(c, r, NoTimestamps)
    \/ \E r \in RoomIds : SelectRoom(r)
    \/ \E t \in DraftTexts : ComposerChange(t)
    \/ TypingTimerFires
    \/ Send
    \/ \E i \in 1..MaxSends, ok \in BOOLEAN : SendTypingSettled(i, ok)
    \/ \E i \in 1..MaxSends : SendEventResolved(i)
    \/ \E i \in 1..MaxSends : SendEventRejected(i)

SpecDraft == InitPlain /\ [][NextDraft]_vars

\* C38 (as claimed): when a send() completes while the composer holds another text than
\* the one that call submitted, the composer keeps that text.
C38_KeepsLaterText ==
    [][\A i \in 1..Len(sends) :
          (SendEventResolved(i) /\ Trim(message) # sends[i].text) => message' = message]_vars

\* ------------------------------------------------------------ receipts for live messages
\* Live messages of the user and of another user, one at a time or as the first sync
\* response filling the window, with room selection and back.  Pending renders are
\* committed.
LiveShapes == {TextFromBob, TextFromMe}

NextReceipt ==
    \/ Commit
    \/ \E c \in ClientIds, r \in RoomIds : SdkRoom(c, r, NoTimestamps)
    \/ \E c \in ClientIds, r \in RoomIds, k \in BurstSizes, shape \in LiveShapes :
          SdkTimeline(c, r, k, FALSE, shape)
    \/ \E r \in RoomIds : SelectRoom(r)
    \/ Back

SpecReceipt == InitPlain /\ [][NextReceipt]_vars /\ WF_vars(Commit)

\* the positions a single appended live message can have in its room's timeline
AppendedIds == {1, 2, Window + 1}

\* a live message n of another user has just been appended to the selected room's
\* timeline sequence and is its latest visible message
AppendedFromOther(n) ==
    /\ last.op = "Room.timeline" /\ ~last.hist /\ last.k = 1
    /\ last.r = activeRoomId
    /\ events # <<>>
    /\ LET e == events[Len(events)]
       IN  /\ e.id = n /\ e.live /\ e.room = activeRoomId /\ e.c = last.c
           /\ isMessage(e) /\ fromOther(e, myUserId)

\* a read receipt for message n of the selected room, or for a later one, is issued
ReceiptFrom(n) ==
    /\ last.op = "commit"
    /\ last.receipt # NoEvent
    /\ last.receipt.room = activeRoomId /\ last.receipt.id >= n

\* C39 (as claimed): whenever a live message of another user is appended to the selected
\* room's timeline sequence and becomes its latest visible message, a read receipt for
\* that message or a later one is eventually issued, with the window full or not.
C39_ReceiptEventually ==
    \A n \in AppendedIds : AppendedFromOther(n) ~> ReceiptFrom(n)

====
